---- MODULE Spec2Model ----
(***************************************************************************)
(* Model of the Telegram file bot (src/bot.py): the upload handler         *)
(* TelegramFileBot.handle_file_message, the Metadata Store FileManager,    *)
(* the read commands and button callbacks, and the progress throttle of    *)
(* WasabiStorage.upload_file.                                              *)
(*                                                                         *)
(* Spec          the upload handlers (two may run concurrently) and        *)
(*               /setchannel                                               *)
(* SpecAccess    /download, /stream, /web, /list and the button callbacks  *)
(*               over a store loaded at construction                       *)
(* SpecProgress  one call of WasabiStorage.upload_file, chunk by chunk     *)
(* SpecStore     FileManager alone: add_file, delete_file, and load_files  *)
(*               at a restart                                              *)
(* SpecRace      two upload handlers on one event loop, each scheduled     *)
(*               until it ends                                             *)
(* SpecDisplay   the progress closures of one upload handler               *)
(* SpecLife      one upload together with every command and button, over   *)
(*               a files.json an earlier process left                      *)
(* SpecChannel   /setchannel with its replies, beside one upload           *)
(* SpecStats     the dashboard (src/web_dashboard.py): get_stats over the  *)
(*               files the bot can have written                            *)
(***************************************************************************)
EXTENDS Integers, Sequences, FiniteSets, TLC

(***************************************************************************)
(* Bounds of the model.                                                    *)
(***************************************************************************)
MaxMsgs == 2          \* inbound file messages per behaviour
MaxClock == 1         \* readings of datetime.now() take values 0..MaxClock
MaxChunk == 3         \* bytes_transferred of one upload_callback call is 1..MaxChunk
MaxStore == 3         \* records in a store loaded at construction in SpecAccess

Handlers == {"h1", "h2"}
Users == {7, 42}
FileHandles == {"fhA", "fhB"}      \* platform-native file handles (file_obj.file_id)
None == "none"

(***************************************************************************)
(* Byte counts above 2^31 are kept as two limbs <<hi, lo>> of base 65536,  *)
(* so that 4 * 1024 * 1024 * 1024 = 65536 * 65536 is <<65536, 0>>.         *)
(***************************************************************************)
LimbBase == 65536

SizeLimit == <<(4 * 1024 * 1024) \div (LimbBase \div 1024), 0>>

SizeGt(a, b) == \/ a[1] > b[1]
                \/ a[1] = b[1] /\ a[2] > b[2]

SizeGe(a, b) == a = b \/ SizeGt(a, b)

\* line 411 with >= in place of >
TooLarge_inclusive(file_size) == SizeGe(file_size, SizeLimit)

\* if file_size > 4 * 1024 * 1024 * 1024
TooLarge(file_size) == SizeGt(file_size, SizeLimit)

\* declared sizes: 10 MB, 4 GiB - 1, 4 GiB, 4 GiB + 1
TenMB == <<160, 0>>
JustBelow == <<LimbBase - 1, LimbBase - 1>>
FourGiB == <<LimbBase, 0>>
JustAbove == <<LimbBase, 1>>

(***************************************************************************)
(* The inbound file messages offered to the handler: sender, the           *)
(* attributes present, the declared size and the platform file handle.     *)
(* Which attribute of the message carries the file: document, then video,  *)
(* then audio, then photo.                                                 *)
(***************************************************************************)
Messages ==
    { [user |-> 42, kinds |-> {"document"},       size |-> TenMB,     fh |-> "fhA"],
      [user |-> 7,  kinds |-> {"photo"},          size |-> JustBelow, fh |-> "fhA"],
      [user |-> 7,  kinds |-> {"video", "audio"}, size |-> FourGiB,   fh |-> "fhB"],
      [user |-> 42, kinds |-> {"audio", "photo"}, size |-> JustAbove, fh |-> "fhB"] }

\* two senders forwarding the same platform file
SameFileMessages == {m \in Messages : m.fh = "fhA"}

(***************************************************************************)
(* The traffic of a behaviour: the handler slots that take messages and    *)
(* the messages that arrive.  Either one upload at a time over all         *)
(* messages (the slot is taken again when its handler has ended), or two   *)
(* concurrent uploads of the same platform file, one per slot.             *)
(***************************************************************************)
Workloads ==
    { [slots |-> {"h1"}, inbox |-> Messages, reuse |-> TRUE],
      [slots |-> Handlers, inbox |-> SameFileMessages, reuse |-> FALSE] }

\* the chain of lines 392-403 tested from its last branch
FileTypeOf_reversed(kinds) ==
    IF "photo" \in kinds THEN "photo"
    ELSE IF "audio" \in kinds THEN "audio"
    ELSE IF "video" \in kinds THEN "video"
    ELSE IF "document" \in kinds THEN "document"
    ELSE None

\* lines 392-403: document, else video, else audio, else photo
FileTypeOf(kinds) ==
    IF "document" \in kinds THEN "document"
    ELSE IF "video" \in kinds THEN "video"
    ELSE IF "audio" \in kinds THEN "audio"
    ELSE IF "photo" \in kinds THEN "photo"
    ELSE None

(***************************************************************************)
(* Identifier generation: md5(file handle + now).hexdigest()[:16].  The    *)
(* digest is a fixed function of its input into a small id space, so that  *)
(* distinct inputs can collide.                                            *)
(***************************************************************************)
IdOf == <<"0a", "1b", "2c">>
Ids == {IdOf[i] : i \in 1..Len(IdOf)}
FhNum == [fh \in FileHandles |-> IF fh = "fhA" THEN 0 ELSE 1]

Md5Hex16(fh, now) == IdOf[((FhNum[fh] + now) % Len(IdOf)) + 1]

\* getattr(file_obj, 'file_name', f"file_{file_id}"): a Photo has no file_name
FileName(fh, ftype, fid) ==
    IF ftype = "photo" THEN <<"file_", fid>> ELSE <<"name_", fh>>

\* f"files/{file_id}_{file_name}"
WasabiKey(fid, fname) == <<"files/", fid, "_">> \o fname

(***************************************************************************)
(* datetime.now().isoformat(): the clock counts half seconds; a reading    *)
(* with zero microseconds is printed without the fraction.  The text is a  *)
(* sequence of fixed-width fields, compared as Python compares strings.    *)
(***************************************************************************)
IsoFormat(t) == IF t % 2 = 0 THEN <<t \div 2>> ELSE <<t \div 2, 5>>

\* the instant a timestamp text denotes, in half seconds
IsoTime(s) == IF Len(s) = 1 THEN 2 * s[1] ELSE 2 * s[1] + 1

RECURSIVE StrLess(_, _)
StrLess(a, b) ==
    IF b = <<>> THEN FALSE
    ELSE IF a = <<>> THEN TRUE
    ELSE IF Head(a) # Head(b) THEN Head(a) < Head(b)
    ELSE StrLess(Tail(a), Tail(b))

(***************************************************************************)
(* FileManager: self.files is an insertion-ordered mapping, kept as the    *)
(* sequence of its items <<file_id, metadata>>.                            *)
(***************************************************************************)
Keys(m) == {m[i][1] : i \in 1..Len(m)}

\* self.files.get(file_id), for a key of the mapping ("if not file_data" is
\* the test fid \notin Keys(m))
get_file(m, fid) == m[CHOOSE i \in 1..Len(m) : m[i][1] = fid][2]

\* the assignment as an append, a present key left in place
DictSet_append(m, fid, metadata) == Append(m, <<fid, metadata>>)

\* self.files[file_id] = metadata: an existing key keeps its position
DictSet(m, fid, metadata) ==
    IF fid \in Keys(m)
    THEN [i \in 1..Len(m) |-> IF m[i][1] = fid THEN <<fid, metadata>> ELSE m[i]]
    ELSE Append(m, <<fid, metadata>>)

(***************************************************************************)
(* files.json.  The content of the file is absent, unreadable, garbage     *)
(* (bytes json.load rejects: an empty or truncated file, foreign bytes) or *)
(* the text of a JSON object: the sequence of its members <<key, object>>, *)
(* every object the sequence of its members <<name, value>>.               *)
(***************************************************************************)
FileAbsent == [kind |-> "absent", items |-> <<>>]
FileUnreadable == [kind |-> "unreadable", items |-> <<>>]
FileGarbage == [kind |-> "garbage", items |-> <<>>]
JsonText(items) == [kind |-> "json", items |-> items]

\* the keys of the metadata dictionary in the order of lines 470-480
MemberOrder == <<"file_name", "file_size", "file_type", "user_id", "upload_date",
                 "wasabi_key", "telegram_file_id">>

\* the dump of a dictionary without the member added at line 492
JsonObject_nobackup(metadata) ==
    [i \in 1..Len(MemberOrder) |-> <<MemberOrder[i], metadata[MemberOrder[i]]>>]

\* json.dump of one metadata dictionary: the members in insertion order;
\* backup_message_id (line 492) is a member only when it was set
JsonObject(metadata) ==
    [i \in 1..Len(MemberOrder) |-> <<MemberOrder[i], metadata[MemberOrder[i]]>>]
        \o (IF metadata.has_backup_message_id
            THEN << <<"backup_message_id", "msg_id">> >> ELSE <<>>)

\* json.load of one object: the value of a name is that of its last member
Member(members, name) ==
    LET at == {i \in 1..Len(members) : members[i][1] = name}
    IN  members[CHOOSE i \in at : \A j \in at : j <= i][2]

ParseObject(members) ==
    [file_name |-> Member(members, "file_name"),
     file_size |-> Member(members, "file_size"),
     file_type |-> Member(members, "file_type"),
     user_id |-> Member(members, "user_id"),
     upload_date |-> Member(members, "upload_date"),
     wasabi_key |-> Member(members, "wasabi_key"),
     telegram_file_id |-> Member(members, "telegram_file_id"),
     has_backup_message_id |->
         \E i \in 1..Len(members) : members[i][1] = "backup_message_id"]

\* json.dump(self.files, f, indent=2): the items in the order of the mapping
json_dump(m) == JsonText([i \in 1..Len(m) |-> <<m[i][1], JsonObject(m[i][2])>>])

\* json.load(f): the dictionary is filled member by member, a repeated key
\* replaces the value and keeps the position of the first
RECURSIVE json_load(_)
json_load(items) ==
    IF items = <<>> THEN <<>>
    ELSE LET last == items[Len(items)]
         IN  DictSet(json_load(SubSeq(items, 1, Len(items) - 1)),
                     last[1], ParseObject(last[2]))

\* load_files with the fallback as its only result
load_files_empty(content) == <<>>

\* FileManager.load_files, lines 155-163: {} when the file does not exist
\* and when open or json.load raises
load_files(content) ==
    IF content.kind = "json" THEN json_load(content.items) ELSE <<>>

\* what a call of save_files can do to the file
SaveOutcomes == {"saved", "open_error", "write_error"}

\* save_files that dumps the mapping as it was when the file was last written
save_files_stale(m, content, outcome) ==
    IF outcome = "write_error" THEN FileGarbage ELSE content

\* FileManager.save_files, lines 165-171: open(.., 'w') truncates the file
\* and json.dump writes it; an exception of either is logged and swallowed.
\* When open raises the file is as before, when the write raises the file is
\* left truncated.
save_files(m, content, outcome) ==
    IF outcome = "saved" THEN json_dump(m)
    ELSE IF outcome = "open_error" THEN content
    ELSE FileGarbage


(***************************************************************************)
(* State.                                                                  *)
(***************************************************************************)
VARIABLES
    files,               \* FileManager.files, the in-memory mapping
    disk,                \* content of files.json
    objects,             \* keys stored in the bucket
    tempfs,              \* paths that exist under temp_files/
    hd,                  \* per running handle_file_message: position and locals
    msgs,                \* inbound file messages received so far
    now,                 \* last reading of datetime.now()
    storage_channel_id,  \* TelegramFileBot.storage_channel_id
    env_channel,         \* os.environ['STORAGE_CHANNEL_ID']
    reply,               \* outcome of the last command or button press
    up,                  \* one transfer: upload_file, or the progress closures
    load                 \* the traffic of this behaviour

vars == <<files, disk, objects, tempfs, hd, msgs, now, storage_channel_id,
          env_channel, reply, up, load>>

ChannelIds == {"-1001", "abc"}

\* int(channel_id) succeeds
IsInt(cid) == cid \in {"-1001", "-1002"}

Terminal == {"rejected", "replied", "failed", "crashed"}

IdleHandler ==
    [pc |-> "idle", user |-> 0, file_type |-> None, file_size |-> <<0, 0>>,
     fh |-> None, temp_file |-> <<>>, file_id |-> None, upload_date |-> <<>>,
     relay |-> None, channel_id |-> None, shown |-> None, failed_at |-> None,
     log |-> <<>>]

NoReply == [op |-> None]

NoUpload == [pc |-> "idle"]

(***************************************************************************)
(* handle_file_message.  One action per resumption of the coroutine: the   *)
(* outcome of the awaited call, then the synchronous code up to the next   *)
(* await.  pc names the call the handler is waiting for.                   *)
(***************************************************************************)
Set(h, r) == hd' = [hd EXCEPT ![h] = r]

Logged(st, evs) == [st EXCEPT !.log = @ \o evs]

\* a reading of datetime.now(): time does not run backwards
Readings == {t \in 0..MaxClock : t >= now}

\* os.path.join("temp_files", f"temp_{safe_file_id}")
TempPath(fh) == <<"temp_files/temp_", fh>>

\* the metadata dictionary of lines 470-480 (backup_message_id is added at 492)
Metadata(st, date) ==
    [file_name |-> FileName(st.fh, st.file_type, st.file_id),
     file_size |-> st.file_size,
     file_type |-> st.file_type,
     user_id |-> st.user,
     upload_date |-> date,
     wasabi_key |-> WasabiKey(st.file_id, FileName(st.fh, st.file_type, st.file_id)),
     telegram_file_id |-> st.fh,
     has_backup_message_id |-> FALSE]

\* lines 388-416: the file attribute, the size gate, the first reply is sent
Receive(h) ==
    /\ h \in load.slots
    /\ hd[h].pc = "idle" \/ (load.reuse /\ hd[h].pc \in Terminal)
    /\ msgs < MaxMsgs
    /\ msgs' = msgs + 1
    /\ \E m \in load.inbox :
         LET st == [IdleHandler EXCEPT !.user = m.user, !.file_type = FileTypeOf(m.kinds),
                                       !.file_size = m.size, !.fh = m.fh]
         IN  IF TooLarge(m.size)
             THEN Set(h, [Logged(st, <<"too_large">>) EXCEPT !.pc = "rejected",
                                                             !.shown = "too_large"])
             ELSE Set(h, [Logged(st, <<"size_ok">>) EXCEPT !.pc = "starting"])
    /\ UNCHANGED <<files, disk, objects, tempfs, now, storage_channel_id,
                   env_channel, reply, up, load>>

\* line 416 returned progress_msg; lines 419-445: the temp directory and path,
\* message.download is called
StartReplyOk(h) ==
    /\ hd[h].pc = "starting"
    /\ \E made \in BOOLEAN :
         IF made
         THEN Set(h, [Logged(hd[h], <<"start">>) EXCEPT
                        !.pc = "downloading", !.shown = "starting",
                        !.temp_file = TempPath(hd[h].fh)])
         ELSE \* os.makedirs raised: line 536, the failure is reported
              Set(h, [Logged(hd[h], <<"start">>) EXCEPT
                        !.pc = "failing_edit", !.shown = "starting",
                        !.failed_at = "prepare"])
    /\ UNCHANGED <<files, disk, objects, tempfs, msgs, now, storage_channel_id,
                   env_channel, reply, up, load>>

\* line 416 raised: outside the try block, the exception leaves the handler
StartReplyFail(h) ==
    /\ hd[h].pc = "starting"
    /\ Set(h, [hd[h] EXCEPT !.pc = "crashed", !.failed_at = "start"])
    /\ UNCHANGED <<files, disk, objects, tempfs, msgs, now, storage_channel_id,
                   env_channel, reply, up, load>>

\* line 445 returned; lines 447-467: the id, the key, upload_file is called
DownloadOk(h) ==
    /\ hd[h].pc = "downloading"
    /\ tempfs' = tempfs \cup {hd[h].temp_file}
    /\ \E t \in Readings :
         /\ now' = t
         /\ Set(h, [Logged(hd[h], <<"download">>) EXCEPT
                      !.pc = "uploading", !.file_id = Md5Hex16(hd[h].fh, t)])
    /\ UNCHANGED <<files, disk, objects, msgs, storage_channel_id,
                   env_channel, reply, up, load>>

\* line 445 raised, with or without a partial local copy
DownloadFail(h) ==
    /\ hd[h].pc = "downloading"
    /\ \E partial \in BOOLEAN :
         /\ tempfs' = IF partial THEN tempfs \cup {hd[h].temp_file} ELSE tempfs
         /\ Set(h, [Logged(hd[h], IF partial THEN <<"partial">> ELSE <<>>) EXCEPT
                      !.pc = "failing_edit", !.failed_at = "download"])
    /\ UNCHANGED <<files, disk, objects, msgs, now, storage_channel_id,
                   env_channel, reply, up, load>>

\* lines 501-506 and 545-550: the local copy is removed if it exists; an error
\* of os.remove is logged
Cleanup(st, removed) ==
    IF st.temp_file # <<>> /\ st.temp_file \in tempfs /\ removed
    THEN tempfs \ {st.temp_file}
    ELSE tempfs

CleanupEvent(st, removed) ==
    IF st.temp_file = <<>> \/ st.temp_file \notin tempfs THEN "cleanup_skipped"
    ELSE IF removed THEN "cleanup_removed"
    ELSE "cleanup_error"

\* add_file that takes the record back when the save failed
add_file_rollback(fid, metadata, outcome) ==
    /\ files' = IF outcome = "saved" THEN DictSet(files, fid, metadata) ELSE files
    /\ disk' = save_files(DictSet(files, fid, metadata), disk, outcome)

\* add_file with a rewrite that holds the caller's record alone
add_file_own_record(fid, metadata, outcome) ==
    /\ files' = DictSet(files, fid, metadata)
    /\ disk' = save_files(<< <<fid, metadata>> >>, disk, outcome)

\* FileManager.add_file: the mapping is updated, then save_files rewrites the
\* file; an error of save_files is logged and the mapping keeps the record
add_file(fid, metadata, outcome) ==
    /\ files' = DictSet(files, fid, metadata)
    /\ disk' = save_files(DictSet(files, fid, metadata), disk, outcome)

\* the removal of the local copy placed before the record is stored
StoreCleanReply_cleanup_first(h, st, metadata) ==
    \E outcome \in SaveOutcomes, removed \in BOOLEAN :
        /\ add_file(st.file_id, metadata, outcome)
        /\ tempfs' = Cleanup(st, removed)
        /\ Set(h, [Logged(st, <<CleanupEvent(st, removed), "put">>) EXCEPT
                     !.pc = "replying"])

\* lines 498-534: the record is stored, the local copy removed, the success
\* text is sent with progress_msg.edit_text
StoreCleanReply(h, st, metadata) ==
    \E outcome \in SaveOutcomes, removed \in BOOLEAN :
        /\ add_file(st.file_id, metadata, outcome)
        /\ tempfs' = Cleanup(st, removed)
        /\ Set(h, [Logged(st, <<"put">> \o
                               (IF outcome = "saved" THEN <<>> ELSE <<"save_error">>) \o
                               <<CleanupEvent(st, removed)>>) EXCEPT
                     !.pc = "replying"])

\* line 467 raised (os.path.getsize or the transfer): line 536
UploadFail_continues(h) ==
    /\ hd[h].pc = "uploading"
    /\ \E t \in Readings :
         /\ now' = t
         /\ LET st == [Logged(hd[h], <<"upload">>) EXCEPT
                         !.upload_date = IsoFormat(t), !.relay = "skipped"]
            IN  StoreCleanReply(h, st, Metadata(st, IsoFormat(t)))
    /\ UNCHANGED <<objects, msgs, storage_channel_id, env_channel, reply, up, load>>

UploadFail(h) ==
    /\ hd[h].pc = "uploading"
    /\ Set(h, [hd[h] EXCEPT !.pc = "failing_edit", !.failed_at = "upload"])
    /\ UNCHANGED <<files, disk, objects, tempfs, msgs, now, storage_channel_id,
                   env_channel, reply, up, load>>

\* line 467 returned the url; lines 470-487: the metadata, then either the
\* relay to the storage channel is called or the record is stored at once
UploadOk(h) ==
    /\ hd[h].pc = "uploading"
    /\ \E t \in Readings :
         /\ now' = t
         /\ LET st == [Logged(hd[h], <<"upload">>) EXCEPT !.upload_date = IsoFormat(t)]
                key == Metadata(st, IsoFormat(t)).wasabi_key
            IN  /\ objects' = objects \cup {key}
                /\ IF storage_channel_id = None
                   THEN \* line 483: no channel configured
                        StoreCleanReply(h, [st EXCEPT !.relay = "skipped"],
                                        Metadata(st, IsoFormat(t)))
                   ELSE IF ~IsInt(storage_channel_id)
                   THEN \* line 486 raised ValueError, caught at 494
                        StoreCleanReply(h, [Logged(st, <<"relay_failed">>)
                                              EXCEPT !.relay = "failed"],
                                        Metadata(st, IsoFormat(t)))
                   ELSE \* line 486: channel_id = int(self.storage_channel_id)
                        /\ Set(h, [st EXCEPT !.pc = "backing_up",
                                             !.channel_id = storage_channel_id])
                        /\ UNCHANGED <<files, disk, tempfs>>
    /\ UNCHANGED <<msgs, storage_channel_id, env_channel, reply, up, load>>

\* line 487 raised: with the failure propagated to line 536
BackupFail_propagates(h) ==
    /\ hd[h].pc = "backing_up"
    /\ Set(h, [Logged(hd[h], <<"relay_failed">>) EXCEPT
                 !.pc = "failing_edit", !.relay = "failed", !.failed_at = "backup"])
    /\ UNCHANGED <<files, disk, objects, tempfs, msgs, now, storage_channel_id,
                   env_channel, reply, up, load>>

\* line 487 raised: logged at 495, the handler continues at 498
BackupFail(h) ==
    /\ hd[h].pc = "backing_up"
    /\ LET st == [Logged(hd[h], <<"relay_failed">>) EXCEPT !.relay = "failed"]
       IN  StoreCleanReply(h, st, Metadata(st, st.upload_date))
    /\ UNCHANGED <<objects, msgs, now, storage_channel_id, env_channel, reply, up, load>>

\* line 487 returned backup_msg: line 492 adds backup_message_id
BackupOk(h) ==
    /\ hd[h].pc = "backing_up"
    /\ hd[h].temp_file \in tempfs
    /\ LET st == [Logged(hd[h], <<"relay_ok">>) EXCEPT !.relay = "ok"]
       IN  StoreCleanReply(h, st, [Metadata(st, st.upload_date) EXCEPT
                                     !.has_backup_message_id = TRUE])
    /\ UNCHANGED <<objects, msgs, now, storage_channel_id, env_channel, reply, up, load>>

\* line 534 returned: the handler ends
ReplyOk(h) ==
    /\ hd[h].pc = "replying"
    /\ Set(h, [Logged(hd[h], <<"reply">>) EXCEPT !.pc = "replied", !.shown = "success"])
    /\ UNCHANGED <<files, disk, objects, tempfs, msgs, now, storage_channel_id,
                   env_channel, reply, up, load>>

\* line 534 raised: line 536, the failure text is sent with edit_text
ReplyFail(h) ==
    /\ hd[h].pc = "replying"
    /\ Set(h, [hd[h] EXCEPT !.pc = "failing_edit", !.failed_at = "reply"])
    /\ UNCHANGED <<files, disk, objects, tempfs, msgs, now, storage_channel_id,
                   env_channel, reply, up, load>>

\* line 539 returned; lines 545-550 remove the local copy; the handler ends
FailEditOk(h) ==
    /\ hd[h].pc = "failing_edit"
    /\ \E removed \in BOOLEAN :
         /\ tempfs' = Cleanup(hd[h], removed)
         /\ Set(h, [Logged(hd[h], <<"report", CleanupEvent(hd[h], removed)>>) EXCEPT
                      !.pc = "failed", !.shown = "failed"])
    /\ UNCHANGED <<files, disk, objects, msgs, now, storage_channel_id,
                   env_channel, reply, up, load>>

\* line 539 raised: line 542 sends the failure text with message.reply_text
FailEditFail(h) ==
    /\ hd[h].pc = "failing_edit"
    /\ Set(h, [hd[h] EXCEPT !.pc = "failing_reply"])
    /\ UNCHANGED <<files, disk, objects, tempfs, msgs, now, storage_channel_id,
                   env_channel, reply, up, load>>

\* line 542 returned; lines 545-550 remove the local copy; the handler ends
FailReplyOk(h) ==
    /\ hd[h].pc = "failing_reply"
    /\ \E removed \in BOOLEAN :
         /\ tempfs' = Cleanup(hd[h], removed)
         /\ Set(h, [Logged(hd[h], <<"report", CleanupEvent(hd[h], removed)>>) EXCEPT
                      !.pc = "failed", !.shown = "failed"])
    /\ UNCHANGED <<files, disk, objects, msgs, now, storage_channel_id,
                   env_channel, reply, up, load>>

\* line 542 raised inside the except block: the exception leaves the handler
\* before line 545
FailReplyFail(h) ==
    /\ hd[h].pc = "failing_reply"
    /\ Set(h, [hd[h] EXCEPT !.pc = "crashed"])
    /\ UNCHANGED <<files, disk, objects, tempfs, msgs, now, storage_channel_id,
                   env_channel, reply, up, load>>

(***************************************************************************)
(* handle_set_channel, lines 748-797: the destination is replaced after    *)
(* get_chat(int(channel_id)) returned.                                     *)
(***************************************************************************)
\* lines 777-778 moved above the get_chat call of line 775
set_channel_unchecked(cid, reachable) ==
    IF IsInt(cid)
    THEN /\ storage_channel_id' = cid
         /\ env_channel' = cid
    ELSE UNCHANGED <<storage_channel_id, env_channel>>

\* lines 773-778: int(channel_id) and get_chat, then the two assignments
set_channel(cid, reachable) ==
    IF IsInt(cid) /\ reachable
    THEN /\ storage_channel_id' = cid
         /\ env_channel' = cid
    ELSE UNCHANGED <<storage_channel_id, env_channel>>

SetChannel ==
    /\ \E cid \in ChannelIds, reachable \in BOOLEAN : set_channel(cid, reachable)
    /\ UNCHANGED <<files, disk, objects, tempfs, hd, msgs, now, reply, up, load>>

HandlerStep(h) ==
    \/ Receive(h)
    \/ StartReplyOk(h)
    \/ StartReplyFail(h)
    \/ DownloadOk(h)
    \/ DownloadFail(h)
    \/ UploadOk(h)
    \/ UploadFail(h)
    \/ BackupOk(h)
    \/ BackupFail(h)
    \/ ReplyOk(h)
    \/ ReplyFail(h)
    \/ FailEditOk(h)
    \/ FailEditFail(h)
    \/ FailReplyOk(h)
    \/ FailReplyFail(h)

Init ==
    /\ files = <<>>
    /\ disk = FileAbsent
    /\ objects = {}
    /\ tempfs = {}
    /\ hd = [h \in Handlers |-> IdleHandler]
    /\ msgs = 0
    /\ now = 0
    /\ storage_channel_id \in {None} \cup ChannelIds
    /\ env_channel = storage_channel_id
    /\ reply = NoReply
    /\ up = NoUpload
    /\ load \in Workloads

Next ==
    \/ \E h \in Handlers : HandlerStep(h)
    \/ SetChannel

Spec == Init /\ [][Next]_vars

(***************************************************************************)
(* Two upload handlers of one process in flight together.  The event loop  *)
(* resumes a handler when the call it awaits has returned or raised, and   *)
(* every awaited call does one or the other.                               *)
(***************************************************************************)
InitRace == Init /\ load.slots = Handlers

SpecRace == InitRace /\ [][Next]_vars /\ \A h \in Handlers : WF_vars(HandlerStep(h))

(***************************************************************************)
(* FileManager.list_files, lines 182-188: the records of one user, each    *)
(* extended with its file_id, sorted by the text of upload_date,           *)
(* reverse=True.  sorted() is stable, also with reverse=True: records with *)
(* equal dates keep the order of the mapping.                              *)
(***************************************************************************)
WithFileId(fid, metadata) ==
    [f \in (DOMAIN metadata) \cup {"file_id"} |->
        IF f = "file_id" THEN fid ELSE metadata[f]]

\* the position at which x enters a descending list: before the first record
\* whose date is smaller
InsertAt(sorted, x) ==
    LET smaller == {i \in 1..Len(sorted) : StrLess(sorted[i].upload_date, x.upload_date)}
    IN  IF smaller = {} THEN Len(sorted) + 1
        ELSE CHOOSE i \in smaller : \A j \in smaller : i <= j

RECURSIVE SortedDesc(_)
SortedDesc(recs) ==
    IF recs = <<>> THEN <<>>
    ELSE LET front == SortedDesc(SubSeq(recs, 1, Len(recs) - 1))
             x == recs[Len(recs)]
             k == InsertAt(front, x)
         IN  SubSeq(front, 1, k - 1) \o <<x>> \o SubSeq(front, k, Len(front))

\* lines 184-187: the loop over self.files.items()
RECURSIVE UserFiles(_, _)
UserFiles(m, user_id) ==
    IF m = <<>> THEN <<>>
    ELSE LET rest == UserFiles(SubSeq(m, 1, Len(m) - 1), user_id)
             item == m[Len(m)]
         IN  IF item[2].user_id = user_id
             THEN Append(rest, WithFileId(item[1], item[2]))
             ELSE rest

\* line 188 without the sort
list_files_unsorted(m, user_id) == UserFiles(m, user_id)

list_files(m, user_id) == SortedDesc(UserFiles(m, user_id))

(***************************************************************************)
(* The read commands and the button callbacks.  A callback token is the    *)
(* sequence of the pieces it is built from (f"download_{file_id}" is       *)
(* <<"download_", file_id>>); an id holds no underscore, so startswith and *)
(* replace act on whole pieces.                                            *)
(***************************************************************************)
Prefixes == { <<"download_">>, <<"stream_">>, <<"web_">>, <<"mx_">>, <<"vlc_">>,
              <<"file_info_">>, <<"mx_", "help_">>, <<"vlc_", "help_">> }

PlainTokens == { <<"upload_file">>, <<"list_files">>, <<"test_connection">> }

\* data.startswith(w)
StartsWith(data, w) == Len(data) > 0 /\ data[1] = w

\* data.replace(w, ""): every occurrence is removed
RECURSIVE Replace(_, _)
Replace(data, w) ==
    IF data = <<>> THEN <<>>
    ELSE IF Head(data) = w THEN Replace(Tail(data), w)
    ELSE <<Head(data)>> \o Replace(Tail(data), w)

\* the text left by replace is the key of a record
Lookup(m, text) == Len(text) = 1 /\ text[1] \in Keys(m)

\* del self.files[file_id]: the other entries keep their order
DictDel(m, fid) == SelectSeq(m, LAMBDA entry : entry[1] # fid)

\* the test of the callback branches with the comparison of the owner left out
Authorized_any(m, text, user) == Lookup(m, text)

\* if file_data and file_data['user_id'] == query.from_user.id
Authorized(m, text, user) ==
    /\ Lookup(m, text)
    /\ get_file(m, text[1]).user_id = user

\* what a reply can show of a record
Reply(op, via, user, target, data) ==
    [op |-> op, via |-> via, user |-> user, target |-> target, data |-> data,
     kind |-> "silent",
     parsed |-> <<>>, requested |-> FALSE, signed |-> FALSE, shown |-> {},
     answered |-> FALSE, listing |-> <<>>, reply_texts |-> 0]

\* the checks with the comparison of the owner left out
CommandChecks_noowner(m, arg, user) ==
    IF arg = None THEN "usage"
    ELSE IF arg \notin Keys(m) THEN "not_found"
    ELSE "pass"

\* lines 554-567, 592-605, 643-656: each check replies and returns
CommandChecks(m, arg, user) ==
    IF arg = None THEN "usage"
    ELSE IF arg \notin Keys(m) THEN "not_found"
    ELSE IF get_file(m, arg).user_id # user THEN "denied"
    ELSE "pass"

\* lines 552-588, 590-639, 641-694: /download, /stream and /web reply with
\* message.reply_text
Command ==
    \E op \in {"download", "stream", "web"}, user \in Users,
       arg \in Ids \cup {None}, sign_ok \in BOOLEAN :
        /\ reply' =
             LET r == [Reply(op, "reply_text", user, arg, <<>>) EXCEPT !.reply_texts = 1]
                 check == CommandChecks(files, arg, user)
             IN  IF check # "pass" THEN [r EXCEPT !.kind = check]
                 ELSE IF op = "download"
                      THEN [r EXCEPT !.kind = "ok",
                                     !.shown = {"file_name", "file_size", "upload_date",
                                                "download_url"}]
                 ELSE IF sign_ok
                      THEN [r EXCEPT !.kind = "ok", !.requested = TRUE, !.signed = TRUE,
                                     !.shown = {"file_name", "file_size"}]
                 ELSE [r EXCEPT !.kind = "sign_failed", !.requested = TRUE]
        /\ UNCHANGED <<files, disk, objects, tempfs, hd, msgs, now,
                       storage_channel_id, env_channel, up, load>>

\* lines 696-746: /list
HandleList ==
    \E user \in Users :
        /\ reply' =
             LET user_files == list_files(files, user)
                 r == [Reply("list", "reply_text", user, None, <<>>) EXCEPT
                         !.reply_texts = 1]
             IN  IF user_files = <<>> THEN [r EXCEPT !.kind = "no_files"]
                 ELSE [r EXCEPT !.kind = "ok", !.listing = user_files,
                                !.shown = {"file_name", "file_size", "upload_date",
                                           "file_id"}]
        /\ UNCHANGED <<files, disk, objects, tempfs, hd, msgs, now,
                       storage_channel_id, env_channel, up, load>>

\* the branches of lines 871-1019 for a token that starts with prefix w: the
\* id is parsed, the record looked up, the owner compared
FileBranch(r, data, w, sign_ok) ==
    LET text == Replace(data, w)
        p == [r EXCEPT !.parsed = text, !.answered = TRUE]
    IN  IF ~Authorized(files, text, r.user) THEN p
        ELSE IF w = "download_"
             THEN [p EXCEPT !.kind = "ok", !.shown = {"file_name", "download_url"}]
        ELSE IF w = "file_info_"
             THEN [p EXCEPT !.kind = "ok",
                            !.shown = {"file_name", "file_size", "upload_date", "file_id"}]
        ELSE IF ~sign_ok
             THEN [p EXCEPT !.kind = "sign_failed", !.requested = TRUE]
        ELSE IF w \in {"stream_", "web_"}
             THEN [p EXCEPT !.kind = "ok", !.requested = TRUE, !.signed = TRUE,
                            !.shown = {"file_name"}]
        ELSE [p EXCEPT !.kind = "ok", !.requested = TRUE, !.signed = TRUE,
                       !.shown = {"file_name", "file_size"}]

\* lines 832-1021: handle_callback_query answers by editing query.message
CallbackReply(user, data, target, sign_ok) ==
    LET r == Reply("callback", "edit_text", user, target, data)
    IN  IF data = <<"upload_file">> THEN [r EXCEPT !.kind = "prompt", !.answered = TRUE]
        ELSE IF data = <<"list_files">>
             THEN IF list_files(files, user) = <<>>
                  THEN [r EXCEPT !.kind = "no_files"]      \* line 852 returns
                  ELSE [r EXCEPT !.kind = "ok", !.answered = TRUE,
                                 !.listing = list_files(files, user),
                                 !.shown = {"file_name"}]
        ELSE IF data = <<"test_connection">>
             THEN [r EXCEPT !.kind = "status", !.answered = TRUE]
        ELSE IF StartsWith(data, "download_") THEN FileBranch(r, data, "download_", sign_ok)
        ELSE IF StartsWith(data, "stream_") THEN FileBranch(r, data, "stream_", sign_ok)
        ELSE IF StartsWith(data, "web_") THEN FileBranch(r, data, "web_", sign_ok)
        ELSE IF StartsWith(data, "mx_") THEN FileBranch(r, data, "mx_", sign_ok)
        ELSE IF StartsWith(data, "vlc_") THEN FileBranch(r, data, "vlc_", sign_ok)
        ELSE IF StartsWith(data, "file_info_") THEN FileBranch(r, data, "file_info_", sign_ok)
        ELSE [r EXCEPT !.answered = TRUE]

\* a press of a button that carries a file id
FileButton ==
    \E user \in Users, w \in Prefixes, fid \in Ids, sign_ok \in BOOLEAN :
        /\ reply' = CallbackReply(user, w \o <<fid>>, fid, sign_ok)
        /\ UNCHANGED <<files, disk, objects, tempfs, hd, msgs, now,
                       storage_channel_id, env_channel, up, load>>

\* a press of upload_file, list_files or test_connection
PlainButton ==
    \E user \in Users, data \in PlainTokens :
        /\ reply' = CallbackReply(user, data, None, TRUE)
        /\ UNCHANGED <<files, disk, objects, tempfs, hd, msgs, now,
                       storage_channel_id, env_channel, up, load>>

(***************************************************************************)
(* The stores FileManager.__init__ can load from files.json: up to         *)
(* MaxStore records with distinct keys.  Keys are opaque, so the i-th      *)
(* record loaded carries the i-th id; owners and dates are free.           *)
(***************************************************************************)
StoredRecord(fid, user, t) ==
    [file_name |-> <<"name_", "fhA">>,
     file_size |-> TenMB,
     file_type |-> "document",
     user_id |-> user,
     upload_date |-> IsoFormat(t),
     wasabi_key |-> WasabiKey(fid, <<"name_", "fhA">>),
     telegram_file_id |-> "fhA",
     has_backup_message_id |-> FALSE]

StoreSizes == {n \in 0..MaxStore : n <= Len(IdOf)}

Stores ==
    UNION { { [i \in 1..n |-> <<IdOf[i], StoredRecord(IdOf[i], owner[i], date[i])>>] :
                owner \in [1..n -> Users], date \in [1..n -> 0..MaxClock] } :
            n \in StoreSizes }

InitAccess ==
    /\ files \in Stores
    /\ disk = json_dump(files)
    /\ objects = {files[i][2].wasabi_key : i \in 1..Len(files)}
    /\ tempfs = {}
    /\ hd = [h \in Handlers |-> IdleHandler]
    /\ msgs = 0
    /\ now = 0
    /\ storage_channel_id = None
    /\ env_channel = None
    /\ reply = NoReply
    /\ up = NoUpload
    /\ load = [slots |-> {}, inbox |-> {}, reuse |-> FALSE]

NextAccess ==
    \/ Command
    \/ HandleList
    \/ FileButton
    \/ PlainButton

SpecAccess == InitAccess /\ [][NextAccess]_vars

(***************************************************************************)
(* One process serving uploads, commands and buttons: the handlers that    *)
(* register_handlers (lines 244-291) installs, over the store the uploads  *)
(* of this process build.                                                  *)
(***************************************************************************)
\* handle_test with the store's remove-by-id wired in (lines 190-196)
HandleTest_deleting ==
    /\ files # <<>>
    /\ files' = Tail(files)
    /\ disk' = save_files(Tail(files), disk, "saved")
    /\ reply' = [Reply("test", "edit_text", 0, None, <<>>) EXCEPT
                   !.kind = "status", !.reply_texts = 1]
    /\ UNCHANGED <<objects, tempfs, hd, msgs, now, storage_channel_id,
                   env_channel, up, load>>

\* lines 799-830: /test reads len(self.file_manager.files) and writes nothing
HandleTest ==
    /\ \E user \in Users :
         reply' = [Reply("test", "edit_text", user, None, <<>>) EXCEPT
                     !.kind = "status", !.reply_texts = 1]
    /\ UNCHANGED <<files, disk, objects, tempfs, hd, msgs, now, storage_channel_id,
                   env_channel, up, load>>

LifeWorkload ==
    [slots |-> {"h1"}, inbox |-> {m \in Messages : m.size = TenMB}, reuse |-> FALSE]

\* files.json as an earlier process left it: one record, owned by user 7
LifeStore == << <<IdOf[1], StoredRecord(IdOf[1], 7, 0)>> >>

InitLife ==
    /\ files = load_files(json_dump(LifeStore))
    /\ disk = json_dump(LifeStore)
    /\ objects = {LifeStore[1][2].wasabi_key}
    /\ tempfs = {}
    /\ hd = [h \in Handlers |-> IdleHandler]
    /\ msgs = 0
    /\ now = 0
    /\ storage_channel_id = None
    /\ env_channel = None
    /\ reply = NoReply
    /\ up = NoUpload
    /\ load = LifeWorkload

NextLife ==
    \/ \E h \in Handlers : HandlerStep(h)
    \/ SetChannel
    \/ HandleTest
    \/ NextAccess

SpecLife == InitLife /\ [][NextLife]_vars

(***************************************************************************)
(* handle_set_channel with its replies, beside one upload.  The ids users  *)
(* send are those of two channels and a word; the process starts with no   *)
(* destination or with the first channel.                                  *)
(***************************************************************************)
SentChannelIds == ChannelIds \cup {"-1002"}

\* the reply_text calls of lines 751-768, 780-793 and 797
ChannelReply(cid, reachable, kind) ==
    [op |-> "setchannel", target |-> cid, reachable |-> reachable, kind |-> kind]

\* lines 748-797.  The success text is sent after the assignments; when that
\* reply_text raises, line 797 sends the failure text
HandleSetChannel ==
    /\ \E cid \in SentChannelIds \cup {None}, reachable \in BOOLEAN, sent \in BOOLEAN :
         IF cid = None
         THEN /\ reply' = ChannelReply(None, FALSE, "usage")
              /\ UNCHANGED <<storage_channel_id, env_channel>>
         ELSE /\ set_channel(cid, reachable)
              /\ reply' = ChannelReply(cid, reachable,
                                       IF IsInt(cid) /\ reachable /\ sent
                                       THEN "ok" ELSE "failed")
    /\ UNCHANGED <<files, disk, objects, tempfs, hd, msgs, now, up, load>>

InitChannel ==
    /\ files = <<>>
    /\ disk = FileAbsent
    /\ objects = {}
    /\ tempfs = {}
    /\ hd = [h \in Handlers |-> IdleHandler]
    /\ msgs = 0
    /\ now = 0
    /\ storage_channel_id \in {None, "-1001"}
    /\ env_channel = storage_channel_id
    /\ reply = NoReply
    /\ up = NoUpload
    /\ load = [LifeWorkload EXCEPT !.reuse = TRUE]

NextChannel ==
    \/ \E h \in Handlers : HandlerStep(h)
    \/ HandleSetChannel

SpecChannel == InitChannel /\ [][NextChannel]_vars

(***************************************************************************)
(* The dashboard (src/web_dashboard.py): BotMonitor reads files.json in a  *)
(* process of its own.  Instants are half seconds as in IsoFormat; the     *)
(* records of the file were uploaded around one midnight.                  *)
(***************************************************************************)
DayTicks == 2 * (24 * 60 * 60)

StatsInstants == {0, DayTicks - 1, DayTicks, DayTicks + 1}

StatsTypes == {"document", "photo"}

\* the files the bot can have written: up to two records
StatsStores ==
    UNION { { [i \in 1..n |->
                 <<IdOf[i], [StoredRecord(IdOf[i], 42, date[i]) EXCEPT
                               !.file_type = ty[i]]>>] :
                ty \in [1..n -> StatsTypes], date \in [1..n -> StatsInstants] } :
            n \in 0..2 }

StatsContents ==
    {FileAbsent, FileUnreadable, FileGarbage} \cup {json_dump(st) : st \in StatsStores}

\* BotMonitor.load_files, lines 20-28: {} unless the file exists and parses
BotMonitor_load_files(content) ==
    IF content.kind = "json" THEN json_load(content.items) ELSE <<>>

\* timedelta.days of (now - upload_date): whole days, rounded down
DeltaDays(t, date) == (t - IsoTime(date)) \div DayTicks

\* BotMonitor.get_stats, lines 30-61
get_stats(content, t) ==
    LET m == BotMonitor_load_files(content)
        types == {m[i][2].file_type : i \in 1..Len(m)}
    IN  [op |-> "stats",
         now |-> t,       \* line 45: now = datetime.now()
         total_files |-> Len(m),
         file_types |-> [ty \in types |->
                           Cardinality({i \in 1..Len(m) : m[i][2].file_type = ty})],
         recent_uploads |->
             Cardinality({i \in 1..Len(m) : DeltaDays(t, m[i][2].upload_date) = 0})]

\* GET / and GET /api/stats
GetStats ==
    /\ reply' = get_stats(disk, now)
    /\ UNCHANGED <<files, disk, objects, tempfs, hd, msgs, now, storage_channel_id,
                   env_channel, up, load>>

\* the clock of the dashboard process between two requests
StatsTick ==
    /\ \E t \in StatsInstants : t > now /\ now' = t
    /\ UNCHANGED <<files, disk, objects, tempfs, hd, msgs, storage_channel_id,
                   env_channel, reply, up, load>>

InitStats ==
    /\ files = <<>>
    /\ disk \in StatsContents
    /\ objects = {}
    /\ tempfs = {}
    /\ hd = [h \in Handlers |-> IdleHandler]
    /\ msgs = 0
    /\ now \in StatsInstants
    /\ LET m == BotMonitor_load_files(disk)     \* no record is dated ahead of the clock
       IN  \A i \in 1..Len(m) : IsoTime(m[i][2].upload_date) <= now
    /\ storage_channel_id = None
    /\ env_channel = None
    /\ reply = NoReply
    /\ up = NoUpload
    /\ load = [slots |-> {}, inbox |-> {}, reuse |-> FALSE]

NextStats == GetStats \/ StatsTick

SpecStats == InitStats /\ [][NextStats]_vars

(***************************************************************************)
(* FileManager on its own: the file found at construction is any of the    *)
(* contents above, the mapping is what load_files made of it (line 153).   *)
(* Put is a call of add_file (at most MaxMsgs of them), Restart the         *)
(* construction of FileManager by the next process over the file the last  *)
(* one left.                                                               *)
(***************************************************************************)
FileContents ==
    {FileAbsent, FileUnreadable, FileGarbage} \cup
    {json_dump(m) : m \in {st \in Stores :
                              \A i \in 1..Len(st) : st[i][2].upload_date = IsoFormat(0)}}

\* the exception raised inside the try block of load_files, if any
LoadError(content) ==
    IF content.kind = "unreadable" THEN "PermissionError"
    ELSE IF content.kind = "garbage" THEN "JSONDecodeError"
    ELSE None

\* except Exception (line 161) catches the subclasses of Exception
ExceptionClasses == {"PermissionError", "JSONDecodeError", "TypeError", "OSError"}

Escapes(error) == error # None /\ error \notin ExceptionClasses

Put ==
    \E fid \in Ids, user \in Users, backed \in BOOLEAN, outcome \in SaveOutcomes :
        LET metadata == [StoredRecord(fid, user, now) EXCEPT
                           !.has_backup_message_id = backed]
        IN  /\ msgs < MaxMsgs
            /\ msgs' = msgs + 1
            /\ add_file(fid, metadata, outcome)
            /\ reply' = [op |-> "put", target |-> fid, record |-> metadata,
                         outcome |-> outcome, overwrote |-> fid \in Keys(files),
                         raised |-> FALSE]
            /\ UNCHANGED <<objects, tempfs, hd, now, storage_channel_id,
                           env_channel, up, load>>

Restart ==
    /\ files' = load_files(disk)
    /\ reply' = [op |-> "load", target |-> None, record |-> None, outcome |-> None,
                 overwrote |-> FALSE, raised |-> Escapes(LoadError(disk))]
    /\ UNCHANGED <<disk, objects, tempfs, hd, msgs, now, storage_channel_id,
                   env_channel, up, load>>

\* FileManager.delete_file, lines 190-196: a present id is deleted and the file
\* rewritten; an absent id returns False without a save
Delete ==
    \E fid \in Ids, outcome \in SaveOutcomes :
        /\ IF fid \in Keys(files)
           THEN /\ files' = DictDel(files, fid)
                /\ disk' = save_files(DictDel(files, fid), disk, outcome)
                /\ reply' = [op |-> "delete", target |-> fid, record |-> None,
                             outcome |-> outcome, overwrote |-> FALSE,
                             raised |-> FALSE, returned |-> TRUE]
           ELSE /\ UNCHANGED <<files, disk>>
                /\ reply' = [op |-> "delete", target |-> fid, record |-> None,
                             outcome |-> None, overwrote |-> FALSE,
                             raised |-> FALSE, returned |-> FALSE]
        /\ UNCHANGED <<objects, tempfs, hd, msgs, now, storage_channel_id,
                       env_channel, up, load>>

InitStore ==
    /\ disk \in FileContents
    /\ files = load_files(disk)
    /\ objects = {}
    /\ tempfs = {}
    /\ hd = [h \in Handlers |-> IdleHandler]
    /\ msgs = 0
    /\ now = 0
    /\ storage_channel_id = None
    /\ env_channel = None
    /\ reply = NoReply
    /\ up = NoUpload
    /\ load = [slots |-> {}, inbox |-> {}, reuse |-> FALSE]

NextStore ==
    \/ Put
    \/ Restart
    \/ Delete

SpecStore == InitStore /\ [][NextStore]_vars

(***************************************************************************)
(* WasabiStorage.upload_file, lines 67-115.  The transfer runs in a thread *)
(* of the executor (lines 97-107) and calls upload_callback there for      *)
(* every chunk.  Percentages are kept as byte counts: progress is          *)
(* 100 * uploaded / file_size.  The sizes are chosen so that no two        *)
(* progress values differ by exactly 5 points, where the float arithmetic  *)
(* of the code and exact arithmetic could disagree.                        *)
(***************************************************************************)
TransferSizes == {3, 24}

ReportStep == 5

LoopThread == "event_loop"
ExecutorThread == "executor"

\* asyncio.get_running_loop() returns the loop running in the calling thread
\* and raises RuntimeError in a thread that runs none
get_running_loop(thread) == IF thread = LoopThread THEN "loop" ELSE "RuntimeError"

\* line 81 with the test always true
ShouldReport_always(uploaded, last_reported, file_size) == TRUE

\* line 81: progress - last_reported >= 5 or progress >= 100
ShouldReport(uploaded, last_reported, file_size) ==
    \/ (uploaded - last_reported) * 100 >= ReportStep * file_size
    \/ uploaded * 100 >= 100 * file_size

\* lines 75-91: upload_callback(bytes_transferred), called by the transfer
UploadCallback ==
    /\ up.pc = "transfer"
    /\ \E n \in 1..MaxChunk :
         /\ up.uploaded + n <= up.file_size
         /\ LET uploaded == up.uploaded + n
            IN  IF up.has_callback /\ ShouldReport(uploaded, up.last_reported, up.file_size)
                THEN up' = [up EXCEPT
                              !.uploaded = uploaded,
                              !.last_reported = uploaded,
                              !.passed = Append(@, uploaded),
                              \* lines 84-91: the bare except swallows RuntimeError
                              !.scheduled = IF get_running_loop(up.thread) = "loop"
                                            THEN Append(@, uploaded) ELSE @]
                ELSE up' = [up EXCEPT !.uploaded = uploaded]
    /\ UNCHANGED <<files, disk, objects, tempfs, hd, msgs, now, storage_channel_id,
                   env_channel, reply, load>>

\* line 107 returns when the whole file was sent; lines 110-111
TransferReturns ==
    /\ up.pc = "transfer"
    /\ up.uploaded = up.file_size
    /\ up' = [up EXCEPT !.pc = "returned"]
    /\ UNCHANGED <<files, disk, objects, tempfs, hd, msgs, now, storage_channel_id,
                   env_channel, reply, load>>

\* line 107 raises; lines 113-115
TransferRaises ==
    /\ up.pc = "transfer"
    /\ up' = [up EXCEPT !.pc = "raised"]
    /\ UNCHANGED <<files, disk, objects, tempfs, hd, msgs, now, storage_channel_id,
                   env_channel, reply, load>>

\* lines 70-73 and 106-107: the counters, the transfer handed to the executor
InitProgress ==
    /\ files = <<>>
    /\ disk = FileAbsent
    /\ objects = {}
    /\ tempfs = {}
    /\ hd = [h \in Handlers |-> IdleHandler]
    /\ msgs = 0
    /\ now = 0
    /\ storage_channel_id = None
    /\ env_channel = None
    /\ reply = NoReply
    /\ load = [slots |-> {}, inbox |-> {}, reuse |-> FALSE]
    /\ \E size \in TransferSizes, cb \in BOOLEAN :
         up = [pc |-> "transfer", file_size |-> size, has_callback |-> cb,
               uploaded |-> 0, last_reported |-> 0, passed |-> <<>>,
               scheduled |-> <<>>, thread |-> ExecutorThread]

NextProgress ==
    \/ UploadCallback
    \/ TransferReturns
    \/ TransferRaises

SpecProgress == InitProgress /\ [][NextProgress]_vars

(***************************************************************************)
(* The progress closures of handle_file_message: download_progress (lines  *)
(* 431-442) is called by message.download with the bytes received so far,  *)
(* upload_progress (lines 453-464) is the callback handed to upload_file   *)
(* and is applied here to the values 100 * uploaded / total it is written  *)
(* for.  A percentage x is kept as the integer x * total; the totals are   *)
(* chosen so that no two values differ by exactly 5 points.                *)
(***************************************************************************)
DisplayTotals == {16, 24}

DisplayStep == 5

Abs(x) == IF x < 0 THEN -x ELSE x

\* the test of line 435 with a step of 5 points of the phase, 2.5 of the total
download_edits_phase_step(progress, last_progress, total) ==
    \/ 2 * Abs(progress - last_progress) >= DisplayStep * total
    \/ progress = 0
    \/ progress >= 50 * total

\* line 435: abs(progress - last_progress) >= 5 or progress == 0 or progress >= 50
download_edits(progress, last_progress, total) ==
    \/ Abs(progress - last_progress) >= DisplayStep * total
    \/ progress = 0
    \/ progress >= 50 * total

\* line 457: abs(total_progress - upload_last_progress) >= 5 or total_progress >= 100
upload_edits(total_progress, upload_last_progress, total) ==
    \/ Abs(total_progress - upload_last_progress) >= DisplayStep * total
    \/ total_progress >= 100 * total

\* lines 431-442: download_progress(current, total); an error of edit_text is
\* ignored
DownloadProgress ==
    /\ up.pc = "download"
    /\ \E n \in 1..MaxChunk :
         /\ up.current + n <= up.total
         /\ LET progress == 50 * (up.current + n)      \* (current / total) * 50
            IN  IF download_edits(progress, up.last_progress, up.total)
                THEN up' = [up EXCEPT !.current = @ + n, !.last_progress = progress,
                                      !.edited = TRUE, !.shown = progress]
                ELSE up' = [up EXCEPT !.current = @ + n, !.edited = FALSE]
    /\ UNCHANGED <<files, disk, objects, tempfs, hd, msgs, now, storage_channel_id,
                   env_channel, reply, load>>

\* line 445 returned; line 452: upload_last_progress = 50
DownloadDone ==
    /\ up.pc = "download"
    /\ up.current = up.total
    /\ up' = [up EXCEPT !.pc = "upload", !.current = 0, !.edited = FALSE]
    /\ UNCHANGED <<files, disk, objects, tempfs, hd, msgs, now, storage_channel_id,
                   env_channel, reply, load>>

\* lines 453-464: upload_progress(progress) with progress = 100 * uploaded / total
UploadProgress ==
    /\ up.pc = "upload"
    /\ \E n \in 1..MaxChunk :
         /\ up.current + n <= up.total
         /\ LET total_progress == 50 * up.total + 50 * (up.current + n)  \* 50 + progress / 2
            IN  IF upload_edits(total_progress, up.upload_last_progress, up.total)
                THEN up' = [up EXCEPT !.current = @ + n,
                                      !.upload_last_progress = total_progress,
                                      !.edited = TRUE, !.shown = total_progress]
                ELSE up' = [up EXCEPT !.current = @ + n, !.edited = FALSE]
    /\ UNCHANGED <<files, disk, objects, tempfs, hd, msgs, now, storage_channel_id,
                   env_channel, reply, load>>

\* line 467 returned
UploadDone ==
    /\ up.pc = "upload"
    /\ up.current = up.total
    /\ up' = [up EXCEPT !.pc = "done", !.edited = FALSE]
    /\ UNCHANGED <<files, disk, objects, tempfs, hd, msgs, now, storage_channel_id,
                   env_channel, reply, load>>

\* lines 430 and 445: last_progress = 0, the download starts
InitDisplay ==
    /\ files = <<>>
    /\ disk = FileAbsent
    /\ objects = {}
    /\ tempfs = {}
    /\ hd = [h \in Handlers |-> IdleHandler]
    /\ msgs = 0
    /\ now = 0
    /\ storage_channel_id = None
    /\ env_channel = None
    /\ reply = NoReply
    /\ load = [slots |-> {}, inbox |-> {}, reuse |-> FALSE]
    /\ \E total \in DisplayTotals :
         up = [pc |-> "download", total |-> total, current |-> 0, last_progress |-> 0,
               upload_last_progress |-> 50 * total, edited |-> FALSE, shown |-> 0]

NextDisplay ==
    \/ DownloadProgress
    \/ DownloadDone
    \/ UploadProgress
    \/ UploadDone

SpecDisplay == InitDisplay /\ [][NextDisplay]_vars

(***************************************************************************)
(* Properties of the progress reports, checked under SpecProgress.         *)
(***************************************************************************)
NonDecreasing(seq) == \A i, j \in 1..Len(seq) : i < j => seq[i] <= seq[j]

\* C8: after a successful upload with a callback, the values handed to the
\* event loop for the callback never decrease and end with 100 percent.
C8_ProgressSequence ==
    (up.pc = "returned" /\ up.has_callback) =>
        /\ up.scheduled # <<>>
        /\ NonDecreasing(up.scheduled)
        /\ up.scheduled[Len(up.scheduled)] * 100 = 100 * up.file_size

\* the distance in percentage points between two byte counts is at least 5
AtLeastStep(a, b, file_size) == (b - a) * 100 >= 5 * file_size

ByNonOwner ==
    /\ reply.op # None
    /\ reply.target \in Keys(files)
    /\ get_file(files, reply.target).user_id # reply.user

\* the operations the ownership rule names
FileCommands == {"download", "stream", "web"}
FileButtons == { <<"download_">>, <<"stream_">>, <<"web_">>, <<"mx_">>, <<"vlc_">>,
                 <<"file_info_">> }

OnRecord ==
    /\ reply.op # None
    /\ \/ reply.op \in FileCommands
       \/ reply.op = "callback" /\
          \E w \in FileButtons : reply.data = w \o <<reply.target>>

\* C1: a command or button press on a record owned by another user requests
\* no signed URL, obtains none and shows no field of the record.
C1_NoDisclosure ==
    (OnRecord /\ ByNonOwner) =>
        /\ ~reply.requested
        /\ ~reply.signed
        /\ reply.shown = {}

C1_Witness ==
    /\ OnRecord /\ ByNonOwner
    /\ reply.data = <<"stream_", reply.target>>
    /\ reply.user = 7
    /\ get_file(files, reply.target).user_id = 42

\* C2: a command or button press on a record owned by another user is
\* answered with the access-denied message.
C2_DenialReported ==
    (OnRecord /\ ByNonOwner) => reply.kind = "denied"

\* C10: the listing of /list holds exactly the records of the requesting
\* user, each with its file_id and its fields, latest upload first.
C10_ListByOwner ==
    (reply.op # None /\ reply.op = "list") =>
        LET L == reply.listing
            own == {i \in 1..Len(files) : files[i][2].user_id = reply.user}
        IN  /\ Len(L) = Cardinality(own)
            /\ \A i \in own : \E k \in 1..Len(L) :
                   /\ L[k].file_id = files[i][1]
                   /\ \A f \in DOMAIN files[i][2] : L[k][f] = files[i][2][f]
            /\ \A k \in 1..Len(L) : L[k].user_id = reply.user
            /\ \A j, k \in 1..Len(L) :
                   j < k => IsoTime(L[j].upload_date) >= IsoTime(L[k].upload_date)

C10_Witness ==
    /\ reply.op # None /\ reply.op = "list"
    /\ Len(files) = 3
    /\ Len(reply.listing) = 2
    /\ files[2][2].user_id # reply.user
    /\ reply.listing[1].file_id = files[3][1]
    /\ reply.listing[2].file_id = files[1][1]
    /\ reply.listing[1].upload_date = <<0, 5>>
    /\ reply.listing[2].upload_date = <<0>>

(***************************************************************************)
(* Properties of the upload handler, checked under Spec.                   *)
(***************************************************************************)
Events(h) == {hd[h].log[i] : i \in 1..Len(hd[h].log)}
EventsAfter(h) == {hd'[h].log[i] : i \in 1..Len(hd'[h].log)}

CleanupEvents == {"cleanup_removed", "cleanup_error", "cleanup_skipped"}

\* the declared size is above 4 * 1024^3 bytes, limb by limb
Over4GiB(s) == s[1] > LimbBase \/ (s[1] = LimbBase /\ s[2] > 0)

\* handler h took a new message in this step
Received(h) == msgs' = msgs + 1 /\ hd'[h] # hd[h]

\* C3: a message whose declared size is above 4 GiB is rejected in the step
\* that receives it, with no temp path, no download, no upload and no change
\* of the store, the bucket or the temp directory, and the handler does
\* nothing more for it; a message of exactly 4 GiB or less passes the gate and
\* goes on to the download.
C3_SizeGate ==
    [][\A h \in Handlers :
         /\ Received(h) =>
              IF Over4GiB(hd'[h].file_size)
              THEN /\ hd'[h].pc = "rejected"
                   /\ hd'[h].temp_file = <<>>
                   /\ EventsAfter(h) = {"too_large"}
                   /\ UNCHANGED <<files, disk, objects, tempfs>>
              ELSE hd'[h].pc = "starting"
         /\ (hd[h].pc = "rejected" /\ hd'[h] # hd[h]) => Received(h)
         /\ (hd[h].pc = "starting" /\ hd'[h].pc \notin {"starting", "crashed"})
              => hd'[h].pc \in {"downloading", "failing_edit"}
      ]_vars

C3_Witness ==
    \E h \in Handlers : hd[h].file_size = FourGiB /\ hd[h].pc = "uploading"

\* C4: every record of the store, in memory and on disk, names an object
\* whose upload returned success, and a handler whose download or upload
\* failed has written no record.
C4_RecordImpliesObject ==
    /\ \A i \in 1..Len(files) : files[i][2].wasabi_key \in objects
    /\ \A i \in 1..Len(load_files(disk)) : load_files(disk)[i][2].wasabi_key \in objects
    /\ \A h \in Handlers :
         hd[h].failed_at \in {"prepare", "download", "upload"} => "put" \notin Events(h)

C4_Witness ==
    /\ Len(files) > 0
    /\ \E h \in Handlers : hd[h].pc = "failed" /\ hd[h].failed_at = "upload"

\* C5: a handler whose download or upload failed ends in Failed, having
\* written no record and relayed no backup, having shown the failure text to
\* the user and having run the removal of the local copy.
C5_FailurePath ==
    \A h \in Handlers :
        (hd[h].failed_at \in {"download", "upload"} /\ hd[h].pc \in Terminal) =>
            /\ hd[h].pc = "failed"
            /\ "put" \notin Events(h)
            /\ hd[h].relay = None
            /\ hd[h].shown = "failed"
            /\ Events(h) \cap CleanupEvents # {}

\* C6: a handler that has ended and had a local copy (complete or partial)
\* has run the removal of that copy.
C6_TempCleanup ==
    \A h \in Handlers :
        (hd[h].pc \in Terminal /\ Events(h) \cap {"download", "partial"} # {}) =>
            Events(h) \cap CleanupEvents # {}

\* C7: a failed relay (an unreachable channel or an id that is no integer)
\* does not fail the upload: in the same step the record is stored without
\* backup_message_id, the local copy is cleaned and the success text is being
\* sent; a record carries backup_message_id exactly if the relay succeeded.
C7_BackupBestEffort ==
    [][\A h \in Handlers :
         /\ (hd[h].relay # "failed" /\ hd'[h].relay = "failed") =>
              /\ hd'[h].pc = "replying"
              /\ "put" \in EventsAfter(h)
              /\ EventsAfter(h) \cap CleanupEvents # {}
         /\ ("put" \notin Events(h) /\ "put" \in EventsAfter(h)) =>
              /\ hd'[h].file_id \in Keys(files')
              /\ get_file(files', hd'[h].file_id).has_backup_message_id
                   = (hd'[h].relay = "ok")
      ]_vars

C7_Witness ==
    \E h \in Handlers :
        /\ hd[h].pc = "replied"
        /\ hd[h].relay = "failed"
        /\ hd[h].shown = "success"
        /\ storage_channel_id = "-1001"
        /\ hd[h].file_id \in Keys(files)
        /\ ~get_file(files, hd[h].file_id).has_backup_message_id

\* C14: /download, /stream and /web reply with the usage hint when no id is
\* given, with not-found when the id is not in the store, with access-denied
\* when the record belongs to another user, in that order, with exactly one
\* reply_text and without asking for a signed URL.
C14_CommandChecks ==
    reply.op \in FileCommands =>
        /\ reply.reply_texts = 1
        /\ reply.via = "reply_text"
        /\ reply.target = None => reply.kind = "usage"
        /\ (reply.target # None /\ reply.target \notin Keys(files)) =>
               reply.kind = "not_found"
        /\ (reply.target \in Keys(files)
              /\ get_file(files, reply.target).user_id # reply.user) =>
               reply.kind = "denied"
        /\ reply.kind \in {"usage", "not_found", "denied"} =>
               (~reply.requested /\ ~reply.signed /\ reply.shown = {})

C14_Witness ==
    /\ reply.op = "stream"
    /\ reply.kind = "denied"
    /\ reply.target \in Keys(files)
    /\ \E k \in Ids : k \notin Keys(files)

(***************************************************************************)
(* Properties of FileManager, checked under SpecStore.                     *)
(***************************************************************************)
IsPut == reply'.op = "put"

\* the mapping after the call: the record under the id, the rest as before
PutInMemory ==
    /\ reply'.target \in Keys(files')
    /\ get_file(files', reply'.target) = reply'.record
    /\ Keys(files') = Keys(files) \cup {reply'.target}
    /\ \A k \in Keys(files) \ {reply'.target} : get_file(files', k) = get_file(files, k)
    /\ Len(files') = (IF reply'.overwrote THEN Len(files) ELSE Len(files) + 1)
    /\ ~reply'.raised

\* C11 as claimed: after put(id, r), get(id) is r, every other entry is as
\* before, the whole mapping is in the file, and a put on a present id
\* replaces the record without an error.
C11_PutPersists ==
    [][IsPut => (PutInMemory /\ disk' = json_dump(files'))]_vars

\* C11 amended: after put(id, r), get(id) is r, every other entry is as
\* before, a put on a present id replaces the record without an error, and
\* the file holds the whole mapping when the write succeeded; when it did not,
\* the file is as before or truncated.
C11_PutPersistsWhenSaved ==
    [][IsPut =>
         /\ PutInMemory
         /\ reply'.outcome = "saved" => disk' = json_dump(files')
         /\ reply'.outcome = "open_error" => disk' = disk
         /\ reply'.outcome = "write_error" => disk' = FileGarbage]_vars

C11_Witness ==
    /\ reply.op = "put"
    /\ reply.overwrote
    /\ reply.outcome = "saved"
    /\ Len(files) >= 2
    /\ disk = json_dump(files)
    /\ get_file(files, reply.target) = reply.record

\* C12: load_files returns the empty mapping and raises nothing when the file
\* is absent, unreadable or not parseable, and returns the mapping whose text
\* the file holds when it is present and valid.
C12_LoadFallback ==
    [][reply'.op = "load" =>
         /\ ~reply'.raised
         /\ disk.kind # "json" => files' = <<>>
         /\ disk.kind = "json" =>
              /\ json_dump(files') = disk
              /\ Len(files') = Len(disk.items)
              /\ \A i \in 1..Len(files') : files'[i][1] = disk.items[i][1]]_vars

C12_Witness ==
    /\ reply.op = "load"
    /\ disk = FileGarbage
    /\ files = <<>>

\* C13: for a non-empty mapping persisted in the file, saving what load_files
\* returns rewrites the same content, and loading what save_files wrote
\* returns the mapping that was saved.
C13_RoundTrip ==
    /\ (disk.kind = "json" /\ disk.items # <<>>) =>
          save_files(load_files(disk), disk, "saved") = disk
    /\ files # <<>> => load_files(save_files(files, disk, "saved")) = files

C13_Witness ==
    /\ reply.op = "load"
    /\ disk.kind = "json"
    /\ Len(files) >= 2
    /\ \E i \in 1..Len(files) : files[i][2].has_backup_message_id
    /\ \E i \in 1..Len(files) : ~files[i][2].has_backup_message_id

\* handler h stored its record in this step (line 498)
Stored(h) == hd[h].pc \in {"uploading", "backing_up"} /\ hd'[h].pc = "replying"

Rank(kind) ==
    IF kind = "document" THEN 1 ELSE IF kind = "video" THEN 2
    ELSE IF kind = "audio" THEN 3 ELSE 4

Pos(h, ev) ==
    IF \E i \in 1..Len(hd[h].log) : hd[h].log[i] = ev
    THEN CHOOSE i \in 1..Len(hd[h].log) : hd[h].log[i] = ev
    ELSE 0

RelayEvents == {"relay_ok", "relay_failed"}

\* C16 as claimed: in a successful upload the record is written before the
\* relay to the backup channel is attempted, and the reply is sent only after
\* the temp copy was removed.
C16_RecordBeforeRelay ==
    \A h \in Handlers :
        hd[h].pc = "replied" =>
            /\ \A ev \in RelayEvents : Pos(h, ev) > 0 => Pos(h, "put") < Pos(h, ev)
            /\ Pos(h, "cleanup_removed") > 0
            /\ Pos(h, "cleanup_removed") < Pos(h, "reply")

\* the stage of an event in lines 409-534
Stage(ev) ==
    IF ev = "size_ok" THEN 1 ELSE IF ev = "start" THEN 2
    ELSE IF ev = "download" THEN 3 ELSE IF ev = "upload" THEN 4
    ELSE IF ev \in RelayEvents THEN 5 ELSE IF ev = "put" THEN 6
    ELSE IF ev = "save_error" THEN 7 ELSE IF ev \in CleanupEvents THEN 8
    ELSE IF ev = "reply" THEN 9 ELSE 0

\* C16 amended: the steps of a successful upload occur in the order size
\* check, download, object-store upload, optional backup relay, metadata
\* record written, removal of the temp copy attempted, reply; the relay comes
\* before the record, and the reply follows the removal attempt whether or
\* not it removed the copy.
C16_StepOrder ==
    \A h \in Handlers :
        hd[h].pc = "replied" =>
            /\ \A i, j \in 1..Len(hd[h].log) :
                   i < j => (0 < Stage(hd[h].log[i])
                             /\ Stage(hd[h].log[i]) < Stage(hd[h].log[j]))
            /\ \A ev \in {"size_ok", "download", "upload", "put", "reply"} : Pos(h, ev) > 0
            /\ \E ev \in CleanupEvents : Pos(h, ev) > 0
            /\ (\E ev \in RelayEvents : Pos(h, ev) > 0) <=> hd[h].relay \in {"ok", "failed"}

C16_Witness ==
    \E h \in Handlers :
        /\ hd[h].pc = "replied"
        /\ hd[h].log = <<"size_ok", "start", "download", "upload", "relay_ok", "put",
                         "cleanup_removed", "reply">>

\* the save of h raised
SaveFailed(h) == \E i \in 1..Len(hd[h].log) : hd[h].log[i] = "save_error"

SaveFailedAfter(h) == \E i \in 1..Len(hd'[h].log) : hd'[h].log[i] = "save_error"

\* the record under the id of h is the one h stored
OwnRecord(m, h) ==
    /\ hd[h].file_id \in Keys(m)
    /\ get_file(m, hd[h].file_id).user_id = hd[h].user
    /\ get_file(m, hd[h].file_id).telegram_file_id = hd[h].fh
    /\ get_file(m, hd[h].file_id).upload_date = hd[h].upload_date

\* C19 as claimed: after a put whose save failed the mapping holds the record
\* of that upload for the rest of the process, and when the handler has
\* reported success the file does not hold it.
C19_RecordStaysOffDisk ==
    \A h \in Handlers :
        (SaveFailed(h) /\ hd[h].pc \in {"replying", "replied"}) =>
            /\ OwnRecord(files, h)
            /\ hd[h].pc = "replied" => ~OwnRecord(load_files(disk), h)

\* C19 amended: a put whose save fails raises nothing and keeps the record in
\* the mapping, where get and list_files return it, the file being left as it
\* was or truncated; the handler goes on to the success reply; afterwards a
\* key never leaves the mapping and its record changes only by a put under
\* the same id.
C19_NoRollback ==
    [][\A h \in Handlers :
         /\ (Stored(h) /\ SaveFailedAfter(h)) =>
              LET fid == hd'[h].file_id
              IN  /\ fid \in Keys(files')
                  /\ get_file(files', fid).user_id = hd[h].user
                  /\ get_file(files', fid).telegram_file_id = hd[h].fh
                  /\ \E i \in 1..Len(list_files(files', hd[h].user)) :
                         list_files(files', hd[h].user)[i].file_id = fid
                  /\ disk' \in {disk, FileGarbage}
                  /\ hd'[h].pc = "replying"
         /\ (hd[h].pc = "replying" /\ hd'[h].pc = "replied") => hd'[h].shown = "success"
         /\ \A k \in Keys(files) :
              /\ k \in Keys(files')
              /\ get_file(files', k) # get_file(files, k) =>
                     \E g \in Handlers : Stored(g) /\ hd'[g].file_id = k
      ]_vars

C19_Witness ==
    \E h \in Handlers :
        /\ hd[h].pc = "replied"
        /\ hd[h].shown = "success"
        /\ SaveFailed(h)
        /\ OwnRecord(files, h)
        /\ hd[h].file_id \notin Keys(load_files(disk))
        /\ disk = FileGarbage

\* C20: the mapping and the file change only in the step in which an upload
\* handler, its download and object-store upload done, stores its record; no
\* key ever leaves the mapping and a record changes only by such a step under
\* the same id; /download, /stream, /web, /list, /test, /setchannel and every
\* button press leave the mapping and the file as they are.
C20_Lifecycle ==
    [][/\ (files' # files \/ disk' # disk) =>
            \E h \in Handlers :
                /\ Stored(h)
                /\ {"download", "upload"} \subseteq Events(h) \cup EventsAfter(h)
                /\ Keys(files') = Keys(files) \cup {hd'[h].file_id}
       /\ \A k \in Keys(files) :
            /\ k \in Keys(files')
            /\ get_file(files', k) # get_file(files, k) =>
                   \E h \in Handlers : Stored(h) /\ hd'[h].file_id = k
       /\ reply' # reply => UNCHANGED <<files, disk, objects, tempfs>>
       /\ storage_channel_id' # storage_channel_id => UNCHANGED <<files, disk>>
      ]_vars

C20_Witness ==
    /\ Len(files) = 2
    /\ disk = json_dump(files)
    /\ \E h \in Handlers : hd[h].pc = "replied" /\ hd[h].file_id \in Keys(files)
    /\ reply.op = "callback"
    /\ reply.kind = "ok"
    /\ reply.target \in Keys(files)
    /\ storage_channel_id # None

\* h reported success and its save raised nothing
SavedAndReplied(h) ==
    /\ hd[h].pc = "replied"
    /\ \A i \in 1..Len(hd[h].log) : hd[h].log[i] # "save_error"

\* both handlers reported success, with saves that succeeded and distinct
\* ids, and the file lacks one of the two records
LostWrite ==
    /\ \A h \in Handlers : SavedAndReplied(h)
    /\ hd["h1"].file_id # hd["h2"].file_id
    /\ \E h \in Handlers : hd[h].file_id \notin Keys(load_files(disk))

\* C17 as claimed: two upload handlers of one process, interleaved, end with
\* both having reported success and the persisted file lacking one of the two
\* records, the later rewrite having replaced the earlier one.
C17_LostWriteHappens == <>LostWrite

\* C17 amended: the rewrites of two concurrent handlers do not race. Every
\* save that succeeds writes the whole shared mapping, which holds every
\* record stored before; when both handlers stored under distinct ids and the
\* later save succeeded, the file holds both records.
C17_NoLostWrite ==
    /\ ~LostWrite
    /\ \A h \in Handlers :
          (hd[h].pc \in {"replying", "replied"} /\ disk = json_dump(files)) =>
              /\ hd[h].file_id \in Keys(load_files(disk))
              /\ load_files(disk) = files

C17_Witness ==
    /\ \A h \in Handlers : hd[h].pc = "replying"
    /\ hd["h1"].file_id # hd["h2"].file_id
    /\ hd["h1"].user # hd["h2"].user
    /\ Keys(load_files(disk)) = {hd["h1"].file_id, hd["h2"].file_id}
    /\ get_file(load_files(disk), hd["h1"].file_id).user_id = hd["h1"].user
    /\ get_file(load_files(disk), hd["h2"].file_id).user_id = hd["h2"].user

(***************************************************************************)
(* Properties of the progress display, checked under SpecDisplay.          *)
(***************************************************************************)
\* a call of one of the two closures
ProgressCall == up.pc \in {"download", "upload"} /\ up'.pc = up.pc

\* the value the call computed and the value of the last edit of its phase,
\* as user-visible percentages times total
Computed == IF up.pc = "download" THEN 50 * up'.current
            ELSE 50 * up.total + 50 * up'.current

LastEdit == IF up.pc = "download" THEN up.last_progress ELSE up.upload_last_progress

\* the end points of a phase always pass its test
PhaseEnd == up'.current = up.total

\* C18 as claimed: download shows 0-50 and upload 50-100, and in either phase
\* a step of at least 5 points of the phase, 2.5 of the total, since the last
\* edit produces an edit, and a smaller one produces none unless it is an end
\* point of the phase.
C18_PhaseStep ==
    [][ProgressCall =>
         /\ up'.edited => up'.shown = Computed
         /\ up.pc = "download" => (0 <= Computed /\ Computed <= 50 * up.total)
         /\ up.pc = "upload" => (50 * up.total <= Computed /\ Computed <= 100 * up.total)
         /\ up'.edited <=> (2 * (Computed - LastEdit) >= 5 * up.total \/ PhaseEnd)]_vars

\* C18 amended: download shows 0-50 and upload 50-100, and in either phase a
\* call edits the message exactly when its value is at least 5 points of the
\* total, 10 of the phase, from the value of the last edit of that phase (0
\* and 50 at the start) or the phase is complete.
C18_TotalStep ==
    [][ProgressCall =>
         /\ up'.edited => up'.shown = Computed
         /\ up.pc = "download" => (0 <= Computed /\ Computed <= 50 * up.total)
         /\ up.pc = "upload" => (50 * up.total <= Computed /\ Computed <= 100 * up.total)
         /\ up'.edited <=> (Computed - LastEdit >= 5 * up.total \/ PhaseEnd)]_vars

C18_Witness ==
    /\ up.pc = "upload"
    /\ up.total = 24
    /\ up.last_progress = 50 * up.total
    /\ up.current = 5
    /\ up.upload_last_progress = 50 * up.total + 50 * 3
    /\ ~up.edited


\* C21: every upload handler that passed the size gate eventually ends with
\* the success reply or with the failure message shown to the user.
C21_EveryUploadEnds ==
    \A h \in Handlers :
        (hd[h].pc = "starting") ~>
            (\/ hd[h].pc = "replied" /\ hd[h].shown = "success"
             \/ hd[h].pc = "failed" /\ hd[h].shown = "failed")


\* C22: the destination (the attribute and the environment entry) changes only
\* in a /setchannel step whose id is an integer and whose get_chat returned,
\* and then to that id; an upload that enters the relay step relays to the
\* destination configured at that moment; a /setchannel whose id is no integer
\* or whose get_chat raised leaves the destination as it was and sends the
\* failure text.
SetChannelStep == reply' # reply /\ reply'.op = "setchannel"

C22_SetChannel ==
    [][/\ (storage_channel_id' # storage_channel_id \/ env_channel' # env_channel) =>
            /\ SetChannelStep
            /\ IsInt(reply'.target) /\ reply'.reachable
            /\ storage_channel_id' = reply'.target
            /\ env_channel' = reply'.target
       /\ \A h \in Handlers :
            hd[h].pc # "backing_up" /\ hd'[h].pc = "backing_up" =>
                /\ hd'[h].channel_id = storage_channel_id
                /\ hd'[h].channel_id = env_channel
       /\ SetChannelStep /\ reply'.kind # "usage"
                         /\ ~(IsInt(reply'.target) /\ reply'.reachable) =>
            /\ UNCHANGED <<storage_channel_id, env_channel>>
            /\ reply'.kind = "failed"
      ]_vars

C22_Witness ==
    /\ reply.op = "setchannel"
    /\ reply.target = "abc"
    /\ reply.kind = "failed"
    /\ storage_channel_id = "-1002"
    /\ \E h \in Handlers :
         /\ hd[h].pc = "replied"
         /\ hd[h].channel_id = "-1002"
         /\ hd[h].relay = "ok"


\* C23: the stats report as many files as the file has records, per-type
\* counts that sum to that number, and as recent uploads the number of
\* records uploaded on the calendar day of the request.
RECURSIVE SumOver(_, _)
SumOver(f, dom) ==
    IF dom = {} THEN 0
    ELSE LET x == CHOOSE y \in dom : TRUE
         IN  f[x] + SumOver(f, dom \ {x})

CalendarDay(t) == t \div DayTicks

C23_StatsCounts ==
    reply.op = "stats" =>
        LET m == BotMonitor_load_files(disk)
        IN  /\ reply.total_files = Len(m)
            /\ SumOver(reply.file_types, DOMAIN reply.file_types) = reply.total_files
            /\ reply.recent_uploads =
                 Cardinality({i \in 1..Len(m) :
                    CalendarDay(IsoTime(m[i][2].upload_date)) = CalendarDay(reply.now)})


\* C24: a handler whose last message to the user is the failure text has
\* stored no record.
C24_FailureMeansNoRecord ==
    \A h \in Handlers :
        hd[h].pc = "failed" /\ hd[h].shown = "failed" => "put" \notin Events(h)


\* C25: for every token the bot puts on a button, the branch that serves a
\* press parses the id the token was built from, and a press by the owner of
\* an existing record edits the message.
C25_TokenRoundTrip ==
    reply.op = "callback" =>
        /\ \A w \in Prefixes :
             reply.data = w \o <<reply.target>> =>
                 /\ reply.parsed = <<reply.target>>
                 /\ (reply.target \in Keys(files)
                       /\ get_file(files, reply.target).user_id = reply.user) =>
                        reply.kind # "silent"
        /\ reply.data \in PlainTokens => reply.kind # "silent"


\* C26: every press of a button, whatever its token, its user and the store,
\* is acknowledged with query.answer() before the handler returns.
C26_Acknowledged ==
    reply.op = "callback" => reply.answered


\* C27: while a handler is between the start of its download and its own
\* removal of the local copy, no step of another handler writes or removes
\* the file at that handler's temporary path.
HoldsTemp(h) == hd[h].pc \in {"downloading", "uploading", "backing_up"}

WritesTemp(g, path) ==
    /\ hd[g].pc = "downloading" /\ hd'[g].pc # "downloading"
    /\ hd[g].temp_file = path
    /\ EventsAfter(g) \cap {"download", "partial"} # {}

RemovesTemp(g, path) ==
    /\ hd'[g] # hd[g]
    /\ path \in tempfs /\ path \notin tempfs'

C27_TempIsolation ==
    [][\A h \in Handlers : \A g \in Handlers \ {h} :
          HoldsTemp(h) =>
              /\ ~WritesTemp(g, hd[h].temp_file)
              /\ ~RemovesTemp(g, hd[h].temp_file)
      ]_vars


\* C28: after every put and every remove whose save succeeded, the file holds
\* the text of the in-memory mapping and loads back to it, the record just put
\* included and the record just removed excluded; a remove of an absent id
\* writes nothing.
SavedStep == reply'.op \in {"put", "delete"} /\ reply'.outcome = "saved"

C28_RepliedRecordsOnDisk ==
    (\A g \in Handlers : "save_error" \notin Events(g)) =>
        \A h \in Handlers :
            hd[h].pc = "replied" =>
                /\ hd[h].file_id \in Keys(load_files(disk))
                /\ (\A g \in Handlers \ {h} : hd[g].file_id # hd[h].file_id) =>
                       get_file(load_files(disk), hd[h].file_id).user_id = hd[h].user

====
